---- MODULE Spec2Model ----
(***************************************************************************)
(* Cache-aside request handlers of lust (src/routes.rs): get_file,         *)
(* add_file and remove_file, running concurrently over the process-wide    *)
(* CACHE_STATE and the storage backend behind get_image,                   *)
(* process_new_image and delete_image.                                     *)
(***************************************************************************)
EXTENDS Integers, Sequences, FiniteSets, TLC

(* ------------------------------ bounds -------------------------------- *)

\* Number of request contexts that may be in flight at the same time.
NumProcs == 2
\* Number of file ids the backend can hand out (ids are never reused).
MaxId == 1
\* Number of entries the cache holds before a set evicts another entry.
CacheCapacity == 1

Procs == 1..NumProcs
FileIds == 1..MaxId

(* ------------------------------ values -------------------------------- *)

\* Rust's Option<T>.
None == <<"None">>
Some(v) == <<"Some", v>>
IsSome(o) == o[1] = "Some"
Unwrap(o) == o[2]
unwrap_or(o, d) == IF IsSome(o) THEN Unwrap(o) ELSE d
Option(S) == {None} \cup {Some(v) : v \in S}

Formats == {"png", "jpeg"}
\* Preset names a request or the configuration may carry, and the ones the
\* configuration may define as size presets.
PresetNames == {"original", "thumb", "nonexistent-xyz"}
ConfigurablePresets == {"thumb"}

PresetCode(p) == CASE p = "original" -> 0 [] p = "thumb" -> 1 [] OTHER -> 2
FormatCode(f) == IF f = "png" THEN 0 ELSE 1

(* ------------------------- base64 encode / decode --------------------- *)

B64Chars ==
  << "A","B","C","D","E","F","G","H","I","J","K","L","M","N","O","P",
     "Q","R","S","T","U","V","W","X","Y","Z","a","b","c","d","e","f",
     "g","h","i","j","k","l","m","n","o","p","q","r","s","t","u","v",
     "w","x","y","z","0","1","2","3","4","5","6","7","8","9","+","/" >>

B64Char(i) == B64Chars[i + 1]
IsB64Char(c) == \E i \in 1..64 : B64Chars[i] = c
B64Index(c) == (CHOOSE i \in 1..64 : B64Chars[i] = c) - 1

RECURSIVE encode(_)
\* base64::encode: three bytes become four characters, the tail is padded.
encode(bytes) ==
  IF Len(bytes) = 0 THEN << >>
  ELSE IF Len(bytes) = 1 THEN
    LET n == bytes[1] * 65536
    IN  << B64Char(n \div 262144), B64Char((n \div 4096) % 64), "=", "=" >>
  ELSE IF Len(bytes) = 2 THEN
    LET n == bytes[1] * 65536 + bytes[2] * 256
    IN  << B64Char(n \div 262144), B64Char((n \div 4096) % 64),
           B64Char((n \div 64) % 64), "=" >>
  ELSE
    LET n == bytes[1] * 65536 + bytes[2] * 256 + bytes[3]
    IN  << B64Char(n \div 262144), B64Char((n \div 4096) % 64),
           B64Char((n \div 64) % 64), B64Char(n % 64) >>
        \o encode(SubSeq(bytes, 4, Len(bytes)))

\* One group of four characters; padding is allowed in the last group only.
DecodeGroup(g, last) ==
  IF IsB64Char(g[1]) /\ IsB64Char(g[2]) /\ IsB64Char(g[3]) /\ IsB64Char(g[4]) THEN
    LET n == B64Index(g[1]) * 262144 + B64Index(g[2]) * 4096
             + B64Index(g[3]) * 64 + B64Index(g[4])
    IN  Some(<< n \div 65536, (n \div 256) % 256, n % 256 >>)
  ELSE IF last /\ IsB64Char(g[1]) /\ IsB64Char(g[2]) /\ IsB64Char(g[3]) /\ g[4] = "=" THEN
    LET n == B64Index(g[1]) * 262144 + B64Index(g[2]) * 4096 + B64Index(g[3]) * 64
    IN  Some(<< n \div 65536, (n \div 256) % 256 >>)
  ELSE IF last /\ IsB64Char(g[1]) /\ IsB64Char(g[2]) /\ g[3] = "=" /\ g[4] = "=" THEN
    LET n == B64Index(g[1]) * 262144 + B64Index(g[2]) * 4096
    IN  Some(<< n \div 65536 >>)
  ELSE None

RECURSIVE decode(_)
\* base64::decode: Some(bytes), or None for text that is not base64.
decode(text) ==
  IF Len(text) = 0 THEN Some(<< >>)
  ELSE IF Len(text) < 4 THEN None
  ELSE
    LET g == DecodeGroup(SubSeq(text, 1, 4), Len(text) = 4)
        rest == decode(SubSeq(text, 5, Len(text)))
    IN  IF IsSome(g) /\ IsSome(rest) THEN Some(Unwrap(g) \o Unwrap(rest)) ELSE None

(* ------------------------------ state --------------------------------- *)

VARIABLES
  workers,   \* the request contexts the server runs at the same time
  config,    \* StateConfig: size_presets, default_serving_preset, default_serving_format
  storage,   \* the storage backend: file id -> Some(uploaded image bytes) or None
  next_id,   \* the next file id process_new_image assigns
  cache,     \* CACHE_STATE: a set of entries [file_id, preset, format, data]
  pc,        \* per request context: "idle", "get_image" (awaiting the backend), "set"
  local,     \* per request context: the locals of get_file across its await
  resp       \* per request context: the response of its last finished request

vars == <<workers, config, storage, next_id, cache, pc, local, resp>>

NoLocal == [handler |-> "none"]
NoResp == [handler |-> "none"]

(* ----------------------------- the cache ------------------------------ *)

SameKey(e, file_id, preset, format) ==
  e.file_id = file_id /\ e.preset = preset /\ e.format = format

\* CacheState::get: a copy of the entry's data, or None.
CacheGet(c, file_id, preset, format) ==
  IF \E e \in c : SameKey(e, file_id, preset, format)
  THEN Some((CHOOSE e \in c : SameKey(e, file_id, preset, format)).data)
  ELSE None

\* CacheState::set: insert or replace; a full cache evicts some other entry.
\* The set of caches the call may leave behind.
CacheSet(c, file_id, preset, format, data) ==
  LET others == {e \in c : ~SameKey(e, file_id, preset, format)}
      new == [file_id |-> file_id, preset |-> preset, format |-> format, data |-> data]
  IN  IF Cardinality(others) < CacheCapacity
      THEN {others \cup {new}}
      ELSE {(others \ {victim}) \cup {new} : victim \in others}

(* ------------------------ the storage backend ------------------------- *)

\* The bytes the backend produces for one rendition of an uploaded image.
RenditionBytes(data, preset, format) == data \o <<PresetCode(preset), FormatCode(format)>>

\* What the backend holds for a rendition: Some(bytes), or None when the file
\* does not exist.
OriginBytes(st, file_id, preset, format) ==
  IF IsSome(st[file_id])
  THEN Some(RenditionBytes(Unwrap(st[file_id]), preset, format))
  ELSE None

\* The outcomes of one fetch-rendition call: the rendition, its absence, or a
\* failure of the backend.
GatewayFetch(st, file_id, preset, format) ==
  { IF IsSome(OriginBytes(st, file_id, preset, format)) THEN "bytes" ELSE "absent", "error" }

\* image::get_image: Option<data>; a call that did not produce data is None.
get_image(st, outcome, file_id, preset, format) ==
  IF outcome = "bytes" THEN OriginBytes(st, file_id, preset, format) ELSE None

\* image::process_new_image: the backend stores the image under a fresh file id
\* and reports the formats it generated, or fails.
GatewayIngest == {"ok", "error"}

\* image::delete_image: the backend removes the file if present, or fails.
GatewayDelete == {"ok", "error"}

(* ------------------------------ requests ------------------------------ *)

\* Upload bodies: one that is not an ImageUpload, and ImageUploads whose data
\* is base64 text or is not.
ImageBytes == {<<7>>}
NotBase64 == <<"!", "!", "!", "!">>
UploadTexts == {encode(b) : b \in ImageBytes} \cup {NotBase64}
\* decode on the upload texts, tabulated.
DecodedUploads == [t \in UploadTexts |-> decode(t)]
decode_upload(text) == DecodedUploads[text]
Malformed == [malformed |-> TRUE]
Bodies == {Malformed} \cup [format : Formats, data : UploadTexts]

(* ------------------------------ get_file ------------------------------ *)

\* The format served: the request's, or the configured default.
ResolveFormat(params_format, cfg) == unwrap_or(params_format, cfg.default_serving_format)

ResolvePreset_NoFallback(params_preset, cfg) ==
  unwrap_or(params_preset, cfg.default_serving_preset)

ResolvePreset_DefaultUnchecked(params_preset, cfg) ==
  IF ~IsSome(params_preset) THEN cfg.default_serving_preset
  ELSE IF Unwrap(params_preset) # "original" /\ Unwrap(params_preset) \notin cfg.size_presets
       THEN "original"
       ELSE Unwrap(params_preset)

\* The preset served: the request's or the configured default; a name that
\* is neither "original" nor a configured size preset becomes "original".
ResolvePreset(params_preset, cfg) ==
  LET preset == unwrap_or(params_preset, cfg.default_serving_preset)
  IN  IF preset # "original" /\ preset \notin cfg.size_presets
      THEN "original"
      ELSE preset

LookupCached_Miss(c, file_id, preset, format) == None

\* The cache lookup of get_file.
LookupCached(c, file_id, preset, format) == CacheGet(c, file_id, preset, format)

StoreFetched_Skip(c, file_id, preset, format, data) == {c}

StoreFetched_OriginalKey(c, file_id, preset, format, data) ==
  CacheSet(c, file_id, "original", format, data)

StoreFetched_Truncated(c, file_id, preset, format, data) ==
  CacheSet(c, file_id, preset, format, SubSeq(data, 1, Len(data) - 1))

\* The cache write of get_file after the backend returned data.
StoreFetched(c, file_id, preset, format, data) == CacheSet(c, file_id, preset, format, data)

CacheAfterFetch_ClearOnNone(c, file_id, preset, format, img) ==
  IF IsSome(img)
  THEN StoreFetched(c, file_id, preset, format, Unwrap(img))
  ELSE {{}}

CacheAfterFetch_Negative(c, file_id, preset, format, img) ==
  IF IsSome(img)
  THEN StoreFetched(c, file_id, preset, format, Unwrap(img))
  ELSE StoreFetched(c, file_id, preset, format, << >>)

\* The caches get_file may leave behind once get_image returned img: data is
\* stored, no data leaves the cache as it was.
CacheAfterFetch(c, file_id, preset, format, img) ==
  IF IsSome(img)
  THEN StoreFetched(c, file_id, preset, format, Unwrap(img))
  ELSE {c}

GetFileResponse_EncodeFirst(img, format, params_encode) ==
  IF unwrap_or(params_encode, FALSE)
  THEN [status |-> 200, kind |-> "json",
        image |-> IF IsSome(img) THEN encode(Unwrap(img)) ELSE << >>]
  ELSE IF ~IsSome(img) THEN [status |-> 404, kind |-> "empty"]
  ELSE [status |-> 200, kind |-> "image", format |-> format, data |-> Unwrap(img)]

\* The response of get_file for img: Option<data>.
GetFileResponse(img, format, params_encode) ==
  IF ~IsSome(img) THEN [status |-> 404, kind |-> "empty"]
  ELSE IF unwrap_or(params_encode, FALSE)
       THEN [status |-> 200, kind |-> "json", image |-> encode(Unwrap(img))]
       ELSE [status |-> 200, kind |-> "image", format |-> format, data |-> Unwrap(img)]

\* The record kept of a finished get_file: the request, the key it used, what
\* it did to the cache and the backend, and its response.
GetFileDone(l, img, gateway, sets, params_encode) ==
  [ handler |-> "get_file", file_id |-> l.file_id, params_preset |-> l.params_preset,
    preset |-> l.preset, format |-> l.format,
    img |-> img, gateway |-> gateway,
    cache_gets |-> 1, gateway_calls |-> IF gateway = "none" THEN 0 ELSE 1,
    cache_sets |-> sets,
    response |-> GetFileResponse(img, l.format, params_encode) ]

\* get_file up to its await: resolve format and preset, look the key up in
\* the cache; a hit is answered at once, a miss goes on to the backend.
get_file_lookup(p) ==
  /\ p \in workers
  /\ pc[p] = "idle"
  /\ \E file_id \in FileIds, params_preset \in Option(PresetNames),
        params_format \in Option(Formats) :
       LET format == ResolveFormat(params_format, config)
           preset == ResolvePreset(params_preset, config)
           cached == LookupCached(cache, file_id, preset, format)
           l == [ handler |-> "get_file", file_id |-> file_id,
                  params_preset |-> params_preset, preset |-> preset,
                  format |-> format, gateway |-> "none", img |-> None ]
       IN  IF IsSome(cached)
           THEN /\ \E params_encode \in Option(BOOLEAN) :
                     resp' = [resp EXCEPT ![p] = GetFileDone(l, cached, "none", 0, params_encode)]
                /\ UNCHANGED <<pc, local>>
           ELSE /\ pc' = [pc EXCEPT ![p] = "get_image"]
                /\ local' = [local EXCEPT ![p] = l]
                /\ resp' = [resp EXCEPT ![p] = NoResp]
  /\ UNCHANGED <<workers, config, storage, next_id, cache>>

\* The awaited get_image call reads the backend.
get_file_get_image(p) ==
  /\ pc[p] = "get_image"
  /\ \E outcome \in GatewayFetch(storage, local[p].file_id, local[p].preset, local[p].format) :
       local' = [local EXCEPT ![p].gateway = outcome,
                              ![p].img = get_image(storage, outcome, local[p].file_id,
                                                   local[p].preset, local[p].format)]
  /\ pc' = [pc EXCEPT ![p] = "set"]
  /\ UNCHANGED <<workers, config, storage, next_id, cache, resp>>

\* get_file after its await: data is written to the cache and served, no
\* data is answered 404.
get_file_finish(p) ==
  /\ pc[p] = "set"
  /\ LET l == local[p]
     IN  /\ cache' \in CacheAfterFetch(cache, l.file_id, l.preset, l.format, l.img)
         /\ \E params_encode \in Option(BOOLEAN) :
              resp' = [resp EXCEPT ![p] =
                         GetFileDone(l, l.img, l.gateway, IF IsSome(l.img) THEN 1 ELSE 0,
                                     params_encode)]
  /\ pc' = [pc EXCEPT ![p] = "idle"]
  /\ local' = [local EXCEPT ![p] = NoLocal]
  /\ UNCHANGED <<workers, config, storage, next_id>>

(* ------------------------------ add_file ------------------------------ *)

AddFileResponse_DecodeErrorIs500(body_read, body, ingest, file_id) ==
  IF ~body_read THEN [status |-> 500, kind |-> "read_error"]
  ELSE IF body = Malformed THEN [status |-> 422, kind |-> "deserialize_error"]
  ELSE IF ~IsSome(decode_upload(body.data)) THEN [status |-> 500, kind |-> "base64_error"]
  ELSE IF ingest # "ok" THEN [status |-> 500, kind |-> "process_error"]
  ELSE [status |-> 200, kind |-> "uploaded", file_id |-> file_id, formats |-> Formats]

AddFileResponse_ProcessErrorIs422(body_read, body, ingest, file_id) ==
  IF ~body_read THEN [status |-> 500, kind |-> "read_error"]
  ELSE IF body = Malformed THEN [status |-> 422, kind |-> "deserialize_error"]
  ELSE IF ~IsSome(decode_upload(body.data)) THEN [status |-> 422, kind |-> "base64_error"]
  ELSE IF ingest # "ok" THEN [status |-> 422, kind |-> "process_error"]
  ELSE [status |-> 200, kind |-> "uploaded", file_id |-> file_id, formats |-> Formats]

\* The response of add_file and whether it reached process_new_image.
AddFileResponse(body_read, body, ingest, file_id) ==
  IF ~body_read THEN [status |-> 500, kind |-> "read_error"]
  ELSE IF body = Malformed THEN [status |-> 422, kind |-> "deserialize_error"]
  ELSE IF ~IsSome(decode_upload(body.data)) THEN [status |-> 422, kind |-> "base64_error"]
  ELSE IF ingest # "ok" THEN [status |-> 500, kind |-> "process_error"]
  ELSE [status |-> 200, kind |-> "uploaded", file_id |-> file_id, formats |-> Formats]

AddFileCache_Prepopulate(c, r, data) ==
  IF r.status = 200
  THEN CHOOSE c2 \in CacheSet(c, r.file_id, "original", "png",
                             RenditionBytes(data, "original", "png")) : TRUE
  ELSE c

\* The cache after add_file answered r for the decoded data: the handler does
\* not touch CACHE_STATE.
AddFileCache(c, r, data) == c

\* add_file for one request: the body could be read or not, the body, and the
\* outcome of process_new_image when the handler gets that far ("none" when
\* it does not). The backend call is the handler's only effect.
add_file_request(p, body_read, body, ingest) ==
  /\ p \in workers
  /\ pc[p] = "idle"
  /\ LET r == AddFileResponse(body_read, body, ingest, next_id)
         called == r.kind \in {"process_error", "uploaded"}
         data == IF body_read /\ body # Malformed THEN decode_upload(body.data) ELSE None
     IN  /\ r.status = 200 => next_id <= MaxId
         /\ IF r.status = 200
            THEN /\ storage' = [storage EXCEPT ![next_id] = Some(Unwrap(data))]
                 /\ next_id' = next_id + 1
            ELSE UNCHANGED <<storage, next_id>>
         /\ cache' = AddFileCache(cache, r, IF IsSome(data) THEN Unwrap(data) ELSE << >>)
         /\ resp' = [resp EXCEPT ![p] =
                       [ handler |-> "add_file", gateway_calls |-> IF called THEN 1 ELSE 0,
                         response |-> r ]]
  /\ UNCHANGED <<workers, config, pc, local>>

\* add_file: read and parse the body, decode the data, hand the image to the
\* backend.
add_file(p) ==
  \E body_read \in BOOLEAN :
  \E body \in IF body_read THEN Bodies ELSE {Malformed} :
  \E ingest \in IF body_read /\ body # Malformed /\ IsSome(decode_upload(body.data))
                THEN GatewayIngest ELSE {"none"} :
    add_file_request(p, body_read, body, ingest)

(* ----------------------------- remove_file ---------------------------- *)

RemoveFileResponse_Inverted(result, file_id) ==
  IF result = "ok"
  THEN [status |-> 500, kind |-> "delete_error", file_id |-> file_id]
  ELSE [status |-> 200, kind |-> "deleted_if_exists", file_id |-> file_id]

\* The response of remove_file for the result of delete_image.
RemoveFileResponse(result, file_id) ==
  IF result # "ok"
  THEN [status |-> 500, kind |-> "delete_error", file_id |-> file_id]
  ELSE [status |-> 200, kind |-> "deleted_if_exists", file_id |-> file_id]

RemoveFileCache_PurgeFirst(c, result, file_id) == {e \in c : e.file_id # file_id}

\* The cache after remove_file: the handler does not touch CACHE_STATE.
RemoveFileCache(c, result, file_id) == c

\* remove_file: delete_image, then the response.
remove_file(p) ==
  /\ p \in workers
  /\ pc[p] = "idle"
  /\ \E file_id \in FileIds, result \in GatewayDelete :
       /\ storage' = IF result = "ok" THEN [storage EXCEPT ![file_id] = None] ELSE storage
       /\ cache' = RemoveFileCache(cache, result, file_id)
       /\ resp' = [resp EXCEPT ![p] =
                     [ handler |-> "remove_file", file_id |-> file_id, result |-> result,
                       existed |-> IsSome(storage[file_id]),
                       response |-> RemoveFileResponse(result, file_id) ]]
  /\ UNCHANGED <<workers, config, next_id, pc, local>>

(* --------------------------- specification ---------------------------- *)

Configs ==
  [ size_presets : SUBSET ConfigurablePresets,
    default_serving_preset : PresetNames,
    default_serving_format : Formats ]

\* The configuration the concurrent runs are served under.
ServedConfig ==
  [ size_presets |-> {"thumb"}, default_serving_preset |-> "original",
    default_serving_format |-> "png" ]

\* Every configuration is explored with one request context, the served
\* configuration with all of them.
Init ==
  /\ \/ config \in Configs /\ workers = {1}
     \/ config = ServedConfig /\ workers = Procs
  /\ storage = [f \in FileIds |-> None]
  /\ next_id = 1
  /\ cache = {}
  /\ pc = [p \in Procs |-> "idle"]
  /\ local = [p \in Procs |-> NoLocal]
  /\ resp = [p \in Procs |-> NoResp]

Next ==
  \/ \E p \in Procs : get_file_lookup(p)
  \/ \E p \in Procs : get_file_get_image(p)
  \/ \E p \in Procs : get_file_finish(p)
  \/ \E p \in Procs : add_file(p)
  \/ \E p \in Procs : remove_file(p)

Spec == Init /\ [][Next]_vars

(* ------------------------------- claims ------------------------------- *)

EntriesOf(c, file_id) == {e \in c : e.file_id = file_id}
IsGetFile(r) == r.handler = "get_file"
IsRemoveFile(r) == r.handler = "remove_file"

\* A get_file response carries exactly payload: as the image body, or as the
\* base64 text that decodes to it.
Serves(r, payload) ==
  /\ r.status = 200
  /\ r.kind = "image" => r.data = payload
  /\ r.kind = "json" => decode(r.image) = Some(payload)
  /\ r.kind \in {"image", "json"}

\* The steps of the handlers, told first by what they leave in pc and resp
\* (a step that leaves every variable as it was needs no check).
LookupStep(p) ==
  /\ pc[p] = "idle"
  /\ pc'[p] = "get_image" \/ (resp'[p] # resp[p] /\ IsGetFile(resp'[p]))
  /\ get_file_lookup(p)
FinishStep(p) == pc[p] = "set" /\ pc'[p] = "idle" /\ get_file_finish(p)
RemoveStep(p) == resp'[p] # resp[p] /\ IsRemoveFile(resp'[p]) /\ remove_file(p)

\* C1: when remove_file finishes with the backend delete succeeded, the cache
\* holds no entry of the deleted file id.
C1_DeleteInvalidates ==
  [][\A p \in Procs :
       (RemoveStep(p) /\ resp'[p].result = "ok") =>
         EntriesOf(cache', resp'[p].file_id) = {}]_vars

\* C2: a get_file whose backend call failed answers with a server error (500),
\* never with not-found (404).
C2_GatewayErrorIsError ==
  \A p \in Procs :
    (IsGetFile(resp[p]) /\ resp[p].gateway = "error") => resp[p].response.status = 500

\* C3: a get_file whose key has an entry in the cache at lookup time is
\* answered with that entry's payload, 200, at once and without a backend call.
C3_CacheHit ==
  [][\A p \in Procs :
       LookupStep(p) =>
         LET r == IF pc'[p] = "get_image" THEN local'[p] ELSE resp'[p]
         IN  \A e \in cache :
               SameKey(e, r.file_id, r.preset, r.format) =>
                 /\ pc'[p] = "idle"
                 /\ resp'[p].img = Some(e.data)
                 /\ Serves(resp'[p].response, e.data)
                 /\ resp'[p].gateway = "none" /\ resp'[p].gateway_calls = 0]_vars

\* A get_file was answered from the cache.
C3_Witness ==
  \E p \in Procs :
    /\ IsGetFile(resp[p]) /\ resp[p].gateway = "none" /\ IsSome(resp[p].img)
    /\ resp[p].response.kind = "json"

\* The key a get_file_lookup step of p used: in its locals after a miss, in
\* its response after a hit.
LookedUp(p) == IF pc'[p] = "get_image" THEN local'[p] ELSE resp'[p]
SameKeyAs(a, b) == a.file_id = b.file_id /\ a.preset = b.preset /\ a.format = b.format
EntriesAt(c, k) == {e \in c : SameKey(e, k.file_id, k.preset, k.format)}

\* C4: a get_file that missed and got bytes from the backend stores them
\* under its key and answers 200 with them; as long as the entry is in the
\* cache, a later get_file of the same key is answered with the same payload
\* and without a backend call.
C4_CachePopulation ==
  [][\A p \in Procs :
       /\ (FinishStep(p) /\ local[p].gateway = "bytes") =>
            /\ IsSome(local[p].img)
            /\ EntriesAt(cache', local[p]) =
                 { [ file_id |-> local[p].file_id, preset |-> local[p].preset,
                     format |-> local[p].format, data |-> Unwrap(local[p].img) ] }
            /\ resp'[p].img = local[p].img
            /\ Serves(resp'[p].response, Unwrap(local[p].img))
       /\ \A q \in Procs :
            ( /\ IsGetFile(resp[p]) /\ resp[p].gateway = "bytes"
              /\ LookupStep(q)
              /\ SameKeyAs(LookedUp(q), resp[p])
              /\ EntriesAt(cache, resp[p]) # {} ) =>
                /\ pc'[q] = "idle"
                /\ resp'[q].img = resp[p].img
                /\ Serves(resp'[q].response, Unwrap(resp[p].img))
                /\ resp'[q].gateway_calls = 0]_vars

\* One get_file populated the cache and another was then answered from it.
C4_Witness ==
  \E p, q \in Procs :
    /\ IsGetFile(resp[p]) /\ resp[p].gateway = "bytes" /\ resp[p].cache_sets = 1
    /\ IsGetFile(resp[q]) /\ resp[q].gateway = "none"
    /\ SameKeyAs(resp[p], resp[q]) /\ resp[q].img = resp[p].img

C6_Coherence ==
  \A e \in cache :
    IsSome(storage[e.file_id]) =>
      Some(e.data) = OriginBytes(storage, e.file_id, e.preset, e.format)

\* The cache holds a resized rendition of a file the backend holds.
C6_Witness ==
  \E e \in cache : IsSome(storage[e.file_id]) /\ e.preset = "thumb" /\ e.format = "jpeg"

ValidPreset(preset) == preset = "original" \/ preset \in config.size_presets
UnknownPresets == {u \in PresetNames : ~ValidPreset(u)}

\* Everything get_file does for a request, as the handler computes it in the
\* current state: the key, the lookup result, what each backend outcome
\* makes of the cache, and the responses.
FetchView(file_id, params_preset, params_format) ==
  LET format == ResolveFormat(params_format, config)
      preset == ResolvePreset(params_preset, config)
      imgs == { get_image(storage, o, file_id, preset, format) :
                  o \in GatewayFetch(storage, file_id, preset, format) }
  IN  [ key |-> <<file_id, preset, format>>,
        cached |-> LookupCached(cache, file_id, preset, format),
        imgs |-> imgs,
        caches |-> { CacheAfterFetch(cache, file_id, preset, format, img) : img \in imgs },
        responses |-> { GetFileResponse(img, format, enc) :
                          img \in imgs, enc \in Option(BOOLEAN) } ]

\* C7: in every reachable state, a get_file asking for a preset that is not
\* "original" and not a configured size preset uses the key, finds the cache
\* entry, calls the backend and changes the cache exactly as the same request
\* asking for "original"; every request that asked for such a preset ran under
\* the "original" key.
C7_PresetFallback ==
  /\ \A u \in UnknownPresets, file_id \in FileIds, params_format \in Option(Formats) :
       FetchView(file_id, Some(u), params_format)
         = FetchView(file_id, Some("original"), params_format)
  /\ \A p \in Procs :
       /\ (local[p].handler = "get_file" /\ local[p].params_preset \in Option(UnknownPresets)
            /\ IsSome(local[p].params_preset)) => local[p].preset = "original"
       /\ (IsGetFile(resp[p]) /\ resp[p].params_preset \in Option(UnknownPresets)
            /\ IsSome(resp[p].params_preset)) => resp[p].preset = "original"

\* A request for an unknown preset was answered from the entry a request for
\* "original" had stored.
C7_Witness ==
  \E p \in Procs :
    /\ IsGetFile(resp[p]) /\ resp[p].params_preset = Some("nonexistent-xyz")
    /\ resp[p].gateway = "none" /\ resp[p].response.status = 200
    /\ \E e \in cache : SameKeyAs(e, resp[p]) /\ e.preset = "original"

\* C8: every cache entry is keyed by "original" or a configured size preset,
\* and so is every key a get_file looks up, fetches or stores.
C8_ValidPresetKeys ==
  /\ \A e \in cache : ValidPreset(e.preset)
  /\ \A p \in Procs :
       /\ local[p].handler = "get_file" => ValidPreset(local[p].preset)
       /\ IsGetFile(resp[p]) => ValidPreset(resp[p].preset)

\* A request for an unknown preset went to the backend and stored an entry,
\* after an upload and a delete had run.
C8_Witness ==
  /\ cache # {}
  /\ \E p \in Procs :
       /\ IsGetFile(resp[p]) /\ resp[p].params_preset = Some("nonexistent-xyz")
       /\ resp[p].cache_sets = 1
  /\ next_id > 1

\* Another request context fetched, or is fetching, the key of p's get_file
\* from the backend.
Racing(p) ==
  \E q \in Procs \ {p} :
    \/ pc[q] \in {"get_image", "set"} /\ SameKeyAs(local[q], local[p])
    \/ IsGetFile(resp[q]) /\ resp[q].gateway = "bytes" /\ SameKeyAs(resp[q], local[p])

\* C9: under every interleaving the cache holds at most one entry per key and
\* every entry is a whole rendition; when get_files of one key that all
\* missed finish, each leaves exactly one entry under the key, holding the
\* bytes the backend returned, and all of them are answered with those bytes.
C9_ConcurrentFetches ==
  [][/\ \A e1, e2 \in cache' : SameKeyAs(e1, e2) => e1 = e2
     /\ \A e \in cache' : \E b \in ImageBytes : e.data = RenditionBytes(b, e.preset, e.format)
     /\ \A p \in Procs :
          (FinishStep(p) /\ IsSome(local[p].img) /\ Racing(p)) =>
            /\ \A e \in EntriesAt(cache', local[p]) : e.data = Unwrap(local[p].img)
            /\ Cardinality(EntriesAt(cache', local[p])) = 1
            /\ IsSome(storage[local[p].file_id]) =>
                 local[p].img = OriginBytes(storage, local[p].file_id, local[p].preset,
                                            local[p].format)
            /\ \A q \in Procs \ {p} :
                 (IsGetFile(resp[q]) /\ resp[q].gateway = "bytes" /\ SameKeyAs(resp[q], local[p]))
                   => resp[q].img = resp'[p].img]_vars

\* Two get_files of one key both missed, both fetched from the backend and
\* both finished; the cache holds the key once.
C9_Witness ==
  \E p, q \in Procs :
    /\ p # q
    /\ IsGetFile(resp[p]) /\ resp[p].gateway = "bytes"
    /\ IsGetFile(resp[q]) /\ resp[q].gateway = "bytes"
    /\ SameKeyAs(resp[p], resp[q])
    /\ Cardinality(EntriesAt(cache, resp[p])) = 1

\* C10: a remove_file whose delete_image succeeded answers 200 "deleted if
\* exists", whether or not the file existed.
C10_DeleteIdempotent ==
  \A p \in Procs :
    (IsRemoveFile(resp[p]) /\ resp[p].result = "ok") =>
      /\ resp[p].response.status = 200
      /\ resp[p].response.kind = "deleted_if_exists"

\* A file was deleted twice, the second time when it no longer existed, and
\* both requests were answered 200.
C10_Witness ==
  \E p, q \in Procs :
    /\ p # q
    /\ IsRemoveFile(resp[p]) /\ resp[p].existed /\ resp[p].response.status = 200
    /\ IsRemoveFile(resp[q]) /\ ~resp[q].existed /\ resp[q].response.status = 200
    /\ resp[p].file_id = resp[q].file_id

IsAddFile(r) == r.handler = "add_file"
AddStep(p) == resp'[p] # resp[p] /\ IsAddFile(resp'[p]) /\ add_file(p)
GetImageStep(p) == pc[p] = "get_image" /\ pc'[p] = "set" /\ get_file_get_image(p)

\* C11: a remove_file whose delete_image failed answers with a server error
\* (500) and leaves the cache exactly as it was.
C11_FailedDeleteKeepsCache ==
  [][\A p \in Procs :
       (RemoveStep(p) /\ resp'[p].result = "error") =>
         /\ resp'[p].response.status = 500
         /\ cache' = cache
         /\ storage' = storage]_vars

\* A delete failed while the cache held an entry of the file.
C11_Witness ==
  \E p \in Procs :
    /\ IsRemoveFile(resp[p]) /\ resp[p].result = "error" /\ resp[p].response.status = 500
    /\ EntriesOf(cache, resp[p].file_id) # {}

\* The upload bodies that cannot be deserialized or whose data is not base64.
BadBodies == {b \in Bodies : b = Malformed \/ ~IsSome(decode_upload(b.data))}

\* C12: an add_file whose body does not deserialize or whose data is not
\* base64 answers with a client-input error (422), never calls
\* process_new_image and leaves the backend and the cache as they were.
C12_MalformedUpload ==
  [][\A p \in Procs :
       (resp'[p] # resp[p] /\ IsAddFile(resp'[p])) =>
         \A body \in BadBodies, ingest \in GatewayIngest \cup {"none"} :
           add_file_request(p, TRUE, body, ingest) =>
             /\ resp'[p].response.status = 422
             /\ resp'[p].gateway_calls = 0
             /\ storage' = storage /\ next_id' = next_id
             /\ cache' = cache]_vars

\* An upload with data that is not base64 was rejected while the backend held
\* a file and the cache an entry.
C12_Witness ==
  \E p \in Procs :
    /\ IsAddFile(resp[p]) /\ resp[p].response.kind = "base64_error"
    /\ cache # {} /\ next_id > 1

\* C13: a get_file whose backend call returned no bytes (it failed, or the
\* rendition is absent) performs no cache set: none of its steps changes the
\* cache.
C13_FailedFetchKeepsCache ==
  [][\A p \in Procs :
       /\ LookupStep(p) => cache' = cache
       /\ GetImageStep(p) => cache' = cache
       /\ (FinishStep(p) /\ local[p].gateway \in {"absent", "error"}) =>
            /\ ~IsSome(local[p].img)
            /\ cache' = cache
            /\ resp'[p].cache_sets = 0]_vars

\* A get_file whose backend call failed finished while the cache held an
\* entry.
C13_Witness ==
  \E p \in Procs :
    /\ IsGetFile(resp[p]) /\ resp[p].gateway = "error" /\ resp[p].cache_sets = 0
    /\ cache # {}

\* C14: no add_file, successful or failed, changes the cache; an entry
\* appears in the cache only in the finishing step of a get_file that missed
\* and got bytes from the backend, under that get_file's key.
C14_IngestKeepsCache ==
  [][/\ \A p \in Procs : AddStep(p) => cache' = cache
     /\ \A e \in cache' \ cache :
          \E p \in Procs :
            /\ FinishStep(p) /\ local[p].gateway = "bytes"
            /\ SameKeyAs(e, local[p]) /\ Some(e.data) = local[p].img]_vars

\* A file was uploaded and the cache holds nothing of it.
C14_Witness ==
  \E p \in Procs :
    /\ IsAddFile(resp[p]) /\ resp[p].response.status = 200
    /\ IsSome(storage[resp[p].response.file_id])
    /\ EntriesOf(cache, resp[p].response.file_id) = {}

\* C15: an add_file whose process_new_image failed answers with a server
\* error (500, not the 422 of a client-input error) that carries no file id
\* and stores nothing; a response carries a file id and formats only when
\* process_new_image succeeded.
C15_IngestGatewayFailure ==
  [][\A p \in Procs :
       (resp'[p] # resp[p] /\ IsAddFile(resp'[p])) =>
         \A body \in Bodies, ingest \in GatewayIngest \cup {"none"} :
           add_file_request(p, TRUE, body, ingest) =>
             /\ (body \notin BadBodies /\ ingest = "error") =>
                  /\ resp'[p].response.status = 500
                  /\ resp'[p].gateway_calls = 1
                  /\ "file_id" \notin DOMAIN resp'[p].response
                  /\ storage' = storage /\ next_id' = next_id
             /\ "file_id" \in DOMAIN resp'[p].response =>
                  /\ body \notin BadBodies /\ ingest = "ok"
                  /\ resp'[p].response.status = 200
                  /\ resp'[p].response.file_id = next_id
                  /\ resp'[p].response.formats # {}
                  /\ IsSome(storage'[next_id])]_vars

\* An upload failed in process_new_image and was answered 500.
C15_Witness ==
  \E p \in Procs :
    /\ IsAddFile(resp[p]) /\ resp[p].response.kind = "process_error"
    /\ resp[p].response.status = 500 /\ resp[p].gateway_calls = 1

\* The request contexts seen to have fetched key k from the backend: finished
\* with its bytes, or holding them before the cache write.
FetchedFromBackend(k) ==
  { p \in Procs :
      \/ IsGetFile(resp[p]) /\ resp[p].gateway = "bytes" /\ SameKeyAs(resp[p], k)
      \/ pc[p] = "set" /\ local[p].gateway = "bytes" /\ SameKeyAs(local[p], k) }
Keys == [file_id : FileIds, preset : PresetNames, format : Formats]

\* C16 as claimed: for every key, the backend's fetch-rendition is invoked
\* exactly once, so never by two requests.
C16_ExactlyOncePerKey == \A k \in Keys : Cardinality(FetchedFromBackend(k)) <= 1

\* C16 as amended: every get_file invokes the backend at most once, and
\* exactly when its key had no cache entry at lookup time; a key whose entry
\* is in the cache is served without a backend call.
C16_OncePerMiss ==
  [][\A p \in Procs :
       /\ LookupStep(p) =>
            /\ pc'[p] = "get_image" <=> EntriesAt(cache, LookedUp(p)) = {}
            /\ pc'[p] = "idle" => resp'[p].gateway_calls = 0
       /\ GetImageStep(p) => (local[p].gateway = "none" /\ local'[p].gateway # "none")
       /\ FinishStep(p) => (local[p].gateway # "none" /\ resp'[p].gateway_calls = 1)]_vars

\* One request finished with the backend's bytes for a key while another
\* holds the backend's bytes for the same key: two backend calls for one key.
C16_Witness ==
  \E p, q \in Procs :
    /\ IsGetFile(resp[p]) /\ resp[p].gateway = "bytes" /\ resp[p].gateway_calls = 1
    /\ pc[q] = "set" /\ local[q].gateway = "bytes"
    /\ SameKeyAs(resp[p], local[q])

\* C17: once a file has been deleted and no request is in flight, the cache
\* holds no entry of the file.
C17_DeleteVsInflight ==
  \A f \in FileIds :
    (f < next_id /\ ~IsSome(storage[f]) /\ \A p \in Procs : pc[p] = "idle") =>
      EntriesOf(cache, f) = {}

\* The preset of a request that carries none: the configured default when it
\* is valid, "original" when it is not.
DefaultResolved ==
  IF ValidPreset(config.default_serving_preset)
  THEN config.default_serving_preset
  ELSE "original"

\* C18 as claimed: a get_file that carries no preset runs under the
\* configured default preset, unchanged.
C18_DefaultUnchanged ==
  \A p \in Procs :
    /\ (local[p].handler = "get_file" /\ ~IsSome(local[p].params_preset)) =>
         local[p].preset = config.default_serving_preset
    /\ (IsGetFile(resp[p]) /\ ~IsSome(resp[p].params_preset)) =>
         resp[p].preset = config.default_serving_preset

\* C18 as amended: a get_file that carries no preset looks up, fetches and
\* stores under the configured default preset when that is "original" or a
\* configured size preset, and under "original" otherwise.
C18_DefaultResolved ==
  \A p \in Procs :
    /\ (local[p].handler = "get_file" /\ ~IsSome(local[p].params_preset)) =>
         /\ local[p].preset = DefaultResolved
         /\ IsSome(local[p].img) =>
              \E b \in ImageBytes :
                Unwrap(local[p].img) = RenditionBytes(b, DefaultResolved, local[p].format)
    /\ (IsGetFile(resp[p]) /\ ~IsSome(resp[p].params_preset)) =>
         /\ resp[p].preset = DefaultResolved
         /\ IsSome(resp[p].img) =>
              \E b \in ImageBytes :
                Unwrap(resp[p].img) = RenditionBytes(b, DefaultResolved, resp[p].format)
         /\ resp[p].cache_sets = 1 =>
              \A e \in cache : SameKeyAs(e, resp[p]) => e.preset = DefaultResolved

\* A request without a preset, under a default that is no configured size
\* preset, fetched and stored the "original" rendition.
C18_Witness ==
  \E p \in Procs :
    /\ IsGetFile(resp[p]) /\ ~IsSome(resp[p].params_preset)
    /\ ~ValidPreset(config.default_serving_preset)
    /\ resp[p].preset = "original" /\ resp[p].cache_sets = 1

\* A cache entry holds the bytes the backend produces for the entry's key.
Canonical(e) == \E b \in ImageBytes : e.data = RenditionBytes(b, e.preset, e.format)

\* The request of a finished get_file answers as get_file answers it under
\* every value of the encode flag: same status, and a 200 carries the payload.
SameDecision(r) ==
  \A flag \in Option(BOOLEAN) :
    LET other == GetFileResponse(r.img, r.format, flag)
    IN  /\ other.status = r.response.status
        /\ other.status = (IF IsSome(r.img) THEN 200 ELSE 404)
        /\ IsSome(r.img) => (Serves(other, Unwrap(r.img)) /\ Serves(r.response, Unwrap(r.img)))
        /\ IsSome(r.img) => (other.kind = "json" <=> flag = Some(TRUE))

\* C19: the encode flag changes neither the found / not-found decision, nor
\* the backend calls, nor the cache: a get_file answers with the same status
\* under every value of the flag, its cache and backend effects are those of
\* the payload alone, and every cache entry holds the backend's bytes, not
\* their base64 text.
C19_EncodeIndependent ==
  [][\A p \in Procs :
       /\ (LookupStep(p) /\ pc'[p] = "idle") =>
            /\ SameDecision(resp'[p])
            /\ resp'[p].gateway_calls = 0 /\ cache' = cache
       /\ FinishStep(p) =>
            /\ SameDecision(resp'[p])
            /\ resp'[p].img = local[p].img
            /\ resp'[p].gateway_calls = 1
            /\ cache' \in CacheAfterFetch(cache, local[p].file_id, local[p].preset,
                                          local[p].format, local[p].img)
            /\ \A e \in cache' : Canonical(e) /\ e.data # encode(e.data)]_vars

\* Two finished requests of one key, one answered with the image and one with
\* its base64 text, while the cache holds the image under that key.
C19_Witness ==
  \E p, q \in Procs :
    /\ IsGetFile(resp[p]) /\ IsGetFile(resp[q]) /\ SameKeyAs(resp[p], resp[q])
    /\ resp[p].response.kind = "image" /\ resp[q].response.kind = "json"
    /\ resp[p].img = resp[q].img
    /\ \E e \in EntriesAt(cache, resp[p]) : Some(e.data) = resp[p].img

\* The entries of other keys that a finishing get_file of context p removes.
RemovedOthers(p) == {e \in cache \ cache' : ~SameKeyAs(e, local[p])}

\* What one get_file does to the cache and the backend, apart from the fate
\* of the entries of other keys: one cache get, one backend call only after a
\* miss, one cache set only after the backend returned bytes and only under
\* the key looked up.
EffectBound(p) ==
  /\ LookupStep(p) =>
       /\ cache' = cache
       /\ pc'[p] = "idle" =>
            /\ resp'[p].cache_gets = 1
            /\ resp'[p].gateway_calls = 0 /\ resp'[p].cache_sets = 0
            /\ EntriesAt(cache, resp'[p]) # {}
       /\ pc'[p] = "get_image" => EntriesAt(cache, local'[p]) = {}
  /\ GetImageStep(p) =>
       /\ cache' = cache
       /\ local[p].gateway = "none"
       /\ SameKeyAs(local'[p], local[p])
  /\ FinishStep(p) =>
       /\ resp'[p].cache_gets = 1 /\ resp'[p].gateway_calls = 1
       /\ resp'[p].cache_sets = (IF local[p].gateway = "bytes" THEN 1 ELSE 0)
       /\ SameKeyAs(resp'[p], local[p])
       /\ resp'[p].cache_sets = 0 => cache' = cache
       /\ \A e \in cache' \ cache : SameKeyAs(e, local[p])

\* C20 as claimed: the effect bound, and a get_file leaves every entry of
\* every other key in the cache as it was.
C20_EffectBound ==
  [][\A p \in Procs :
       /\ EffectBound(p)
       /\ FinishStep(p) => RemovedOthers(p) = {}]_vars

\* C20 as amended: the effect bound, and a get_file never replaces an entry
\* of another key; it removes at most one, and only when its own cache set
\* finds the cache full.
C20_EffectBoundUpToEviction ==
  [][\A p \in Procs :
       /\ EffectBound(p)
       /\ FinishStep(p) =>
            /\ Cardinality(RemovedOthers(p)) <= 1
            /\ \A e \in RemovedOthers(p) :
                 /\ resp'[p].cache_sets = 1
                 /\ EntriesAt(cache', e) = {}
                 /\ Cardinality({o \in cache : ~SameKeyAs(o, local[p])}) >= CacheCapacity]_vars

\* A get_file stored its bytes under its key and the full cache lost the
\* entry of another key.
C20_Witness ==
  \E p \in Procs :
    /\ IsGetFile(resp[p]) /\ resp[p].cache_sets = 1 /\ resp[p].gateway_calls = 1
    /\ EntriesAt(cache, resp[p]) # {}
    /\ \E q \in Procs \ {p} :
         /\ IsGetFile(resp[q]) /\ resp[q].cache_sets = 1
         /\ ~SameKeyAs(resp[q], resp[p])
         /\ IsSome(storage[resp[q].file_id])
         /\ EntriesAt(cache, resp[q]) = {}

====
